---- MODULE Spec2Model ----
(***************************************************************************)
(* Model of the talking-pet backend (src/main.py): the two job pipelines   *)
(* create_job_with_prompt (a) and create_job_with_prompt_and_tts (b), the  *)
(* Replicate submit-and-poll loop, and the Supabase collaborators.         *)
(*                                                                         *)
(* A job is a coroutine on a single-threaded event loop.  pc[j] names the  *)
(* awaited call the job performs next; one action performs that call with  *)
(* an outcome chosen by the environment and then runs the synchronous code *)
(* that follows it up to the next awaited call.                            *)
(***************************************************************************)
EXTENDS Integers, Sequences, FiniteSets, TLC

\* ---- bounds of the model -------------------------------------------------
NumJobs == 2
MaxPolls == 3
MaxList == 2
MaxSeconds == 7

Jobs == 1..NumJobs

\* ---- program constants ---------------------------------------------------
DEFAULT_MODEL == "wan-video/wan-2.1"
S2V_MODEL_Truncated == "wan-video/wan-2.2"
S2V_MODEL == "wan-video/wan-2.2-s2v"
TTS_MAX_CHARS == 600
MAX_AUDIO_BYTES == 9500000

SUPPORTED_MODELS ==
    { "minimax/hailuo-02", "wan-video/wan-2.1", "kwaivgi/kling-v2.1",
      "wan-video/wan-2.2-s2v", "bytedance/seedance-1-lite" }

\* ---- values --------------------------------------------------------------
None == "None"

Uris == {"u1", "u2"}

\* the shapes data.get("output") can have
RECURSIVE SeqsUpTo(_, _)
SeqsUpTo(S, n) ==
    IF n = 0 THEN { <<>> }
    ELSE LET shorter == SeqsUpTo(S, n - 1)
         IN  shorter \cup { Append(s, x) : s \in { t \in shorter : Len(t) = n - 1 }, x \in S }

Outputs ==
    { [kind |-> "list", items |-> s] : s \in SeqsUpTo(Uris, MaxList) }
    \cup { [kind |-> "str", items |-> <<u>>] : u \in Uris \cup {""} }
    \cup { [kind |-> "null", items |-> <<>>], [kind |-> "other", items |-> <<>>] }

NoOutput == [kind |-> "null", items |-> <<>>]

\* the statuses the provider reports for a prediction
NonTerminal == {"starting", "processing"}
Final == {"succeeded", "failed", "canceled"}

\* the identifiers a create response can carry in its "id" field
PredictionIds == {None, "", "pred-1"}

ErrorTexts == {None, "boom"}
LogTexts == {None, "log line"}

\* ---- exceptions ----------------------------------------------------------
NoErr == [exc |-> "None", status |-> 0, detail |-> <<>>]
HTTPException(status, detail) ==
    [exc |-> "HTTPException", status |-> status, detail |-> detail]
\* an httpx.HTTPError (transport error or raise_for_status) raised by a call
HttpxError(call, kind) ==
    [exc |-> "httpx.HTTPError", status |-> 0, detail |-> <<call, kind>>]
\* any exception that is not an httpx.HTTPError
OtherError(call) ==
    [exc |-> "Exception", status |-> 0, detail |-> <<call>>]

VARIABLES
    cfg,        \* module-level configuration read at import
    req,        \* req[j]: the request body of job j
    pc,         \* pc[j]: the awaited call job j performs next
    loc,        \* loc[j]: local variables of the route handler
    pred,       \* pred[j]: the poller's view of the remote prediction
    remote,     \* remote[j]: the prediction held by the provider
    objects,    \* keys present in the Supabase bucket
    records,    \* rows of the pet_videos table
    calls,      \* calls[j]: remote calls issued by job j, in order
    exc,        \* exc[j]: exception being handled by the except block
    outcome,    \* outcome[j]: what the handler returned or raised
    blocked,    \* job holding the event loop in time.sleep, 0 if none
    registry,   \* the module-level SUPPORTED_MODELS dictionary
    built,      \* the latest call of build_model_payload and what it returned
    provider,   \* the outputs, error texts and logs the provider can answer
    tmpdirs,    \* the directories made by tempfile.mkdtemp that are on disk
    called      \* the latest call of a helper made on its own, and its result

vars == <<cfg, req, pc, loc, pred, remote, objects, records, calls, exc,
          outcome, blocked, registry, built, provider, tmpdirs, called>>

\* ---- pure helpers ----------------------------------------------------------
\* str.strip("/")
RECURSIVE LStrip(_)
LStrip(s) == IF Len(s) > 0 /\ Head(s) = "/" THEN LStrip(Tail(s)) ELSE s

RECURSIVE RStrip(_)
RStrip(s) ==
    IF Len(s) > 0 /\ SubSeq(s, Len(s), Len(s)) = "/"
    THEN RStrip(SubSeq(s, 1, Len(s) - 1))
    ELSE s

Strip(s) == RStrip(LStrip(s))

\* str.replace("..", ""): non-overlapping occurrences, scanned left to right
RECURSIVE RemoveDotDot(_)
RemoveDotDot(s) ==
    IF Len(s) < 2 THEN s
    ELSE IF SubSeq(s, 1, 2) = ".." THEN RemoveDotDot(SubSeq(s, 3, Len(s)))
    ELSE Head(s) \o RemoveDotDot(Tail(s))

\* uuid.UUID(id): the canonical form of the identifiers the model draws from,
\* "invalid" where the constructor raises ValueError
UserIds ==
    { "00000000-0000-0000-0000-000000000000",
      "ABCDEF00-0000-0000-0000-000000000001",
      "not-a-uuid" }

UuidParse(id) ==
    CASE id = "00000000-0000-0000-0000-000000000000" -> id
      [] id = "ABCDEF00-0000-0000-0000-000000000001"
            -> "abcdef00-0000-0000-0000-000000000001"
      [] OTHER -> "invalid"

\* resolve_user_storage_prefix using the id as it was sent
resolve_user_storage_prefix_AsSent(user_context) ==
    IF user_context = None
    THEN [ok |-> TRUE, prefix |-> "anonymous", err |-> NoErr]
    ELSE IF UuidParse(user_context) = "invalid"
    THEN [ok |-> FALSE, prefix |-> None,
          err |-> HTTPException(400, <<"user_context.id must be a valid UUID">>)]
    ELSE [ok |-> TRUE, prefix |-> "users/" \o user_context, err |-> NoErr]

\* resolve_user_storage_prefix: the prefix, or the HTTPException it raises
resolve_user_storage_prefix(user_context) ==
    IF user_context = None
    THEN [ok |-> TRUE, prefix |-> "anonymous", err |-> NoErr]
    ELSE IF UuidParse(user_context) = "invalid"
    THEN [ok |-> FALSE, prefix |-> None,
          err |-> HTTPException(400, <<"user_context.id must be a valid UUID">>)]
    ELSE [ok |-> TRUE, prefix |-> "users/" \o UuidParse(user_context),
          err |-> NoErr]

\* uuid.uuid4() of the n-th key job j builds: fresh for every call
Uuid4(j, n) == "uuid" \o ToString(j) \o "-" \o ToString(n)

build_storage_key(prefix, category, extension, uuid4) ==
    LET stripped == IF Strip(prefix) = "" THEN "anonymous" ELSE Strip(prefix)
        safe_prefix == RemoveDotDot(stripped)
    IN  safe_prefix \o "/" \o category \o "/" \o uuid4 \o "." \o extension

\* the public URL supabase_upload returns for an object path
PublicUrl(object_path) == "public/pets/" \o object_path \o "?download=1"

\* response.content of a GET on url
ContentOf(url) == "content:" \o url

\* the container ffmpeg writes for a video and an audio input
MuxedBytes(video_url, audio_url) == "mux:" \o video_url \o "+" \o audio_url

SupabaseEnvSet == cfg.SUPABASE_URL /\ cfg.SUPABASE_SERVICE_ROLE

\* get_model_config: the model is supported, or the HTTPException it raises
UnsupportedModel(model) ==
    HTTPException(400, <<"Unsupported model", model, "Supported models",
                         "minimax/hailuo-02", "wan-video/wan-2.1",
                         "kwaivgi/kling-v2.1", "wan-video/wan-2.2-s2v",
                         "bytedance/seedance-1-lite">>)

\* ---- the model registry and build_model_payload ----------------------------
KLING_MODEL == "kwaivgi/kling-v2.1"
SEEDANCE_MODEL == "bytedance/seedance-1-lite"

\* the contents of SUPPORTED_MODELS at import (7.5 is written "7.5")
ModelRegistry ==
    [m \in SUPPORTED_MODELS |->
        CASE m = "minimax/hailuo-02" ->
               [name |-> "Hailuo-02",
                default_params |-> [prompt_optimizer |-> FALSE],
                param_mapping |-> [image_url |-> "first_frame_image",
                                   prompt |-> "prompt",
                                   seconds |-> "duration",
                                   resolution |-> "resolution"],
                supported_resolutions |-> <<"512p", "768p", "1080p">>]
          [] m = "wan-video/wan-2.1" ->
               [name |-> "Wan v2.1",
                default_params |-> [format |-> "wan2.1"],
                param_mapping |-> [image_url |-> "image",
                                   prompt |-> "prompt",
                                   seconds |-> "duration",
                                   resolution |-> "resolution"],
                supported_resolutions |-> <<"768p", "1080p">>]
          [] m = "kwaivgi/kling-v2.1" ->
               [name |-> "Kling v2.1",
                default_params |-> [mode |-> "standard", aspect_ratio |-> "1:1"],
                param_mapping |-> [image_url |-> "start_image",
                                   prompt |-> "prompt",
                                   seconds |-> "duration",
                                   resolution |-> "aspect_ratio"],
                supported_resolutions |-> <<"720p", "1080p">>]
          [] m = "wan-video/wan-2.2-s2v" ->
               [name |-> "Wan v2.2",
                default_params |-> [guidance_scale |-> "7.5",
                                    num_inference_steps |-> 25],
                param_mapping |-> [image_url |-> "image",
                                   prompt |-> "prompt",
                                   seconds |-> "duration",
                                   resolution |-> "resolution",
                                   audio_url |-> "audio"]]
          [] m = "bytedance/seedance-1-lite" ->
               [name |-> "SeeDance-1 Lite",
                default_params |-> [guidance_scale |-> "7.5",
                                    num_inference_steps |-> 20],
                param_mapping |-> [image_url |-> "image",
                                   prompt |-> "prompt",
                                   seconds |-> "duration",
                                   resolution |-> "resolution"],
                supported_resolutions |-> <<"480p", "720p", "1080p">>]]

\* d[k] = v on a dictionary
Put(d, k, v) == [x \in (DOMAIN d) \cup {k} |-> IF x = k THEN v ELSE d[x]]

\* the truth value Python gives an optional string
Truthy(x) == x # None /\ x # ""

\* KlingDuration snapping with `seconds < 5`
KlingDuration_Below5(seconds) == IF seconds < 5 THEN 5 ELSE 10

\* the duration Kling is given: `5 if seconds <= 5 else 10`
KlingDuration(seconds) == IF seconds <= 5 THEN 5 ELSE 10

\* KlingResolution giving "1024p" the pro mode as well
KlingResolution_1024Pro(resolution) ==
    IF resolution \in {"1080p", "1024p"} THEN [mode |-> "pro", ratio |-> "16:9"]
    ELSE [mode |-> "standard", ratio |-> "1:1"]

\* the mode and aspect ratio Kling is given for a resolution label
KlingResolution(resolution) ==
    IF resolution = "1080p" THEN [mode |-> "pro", ratio |-> "16:9"]
    ELSE IF resolution = "1024p" THEN [mode |-> "standard", ratio |-> "16:9"]
    ELSE [mode |-> "standard", ratio |-> "1:1"]

\* the resolution label SeeDance is given
SeedanceResolution(resolution) ==
    IF resolution = "480p" THEN "480p"
    ELSE IF resolution = "720p" THEN "720p"
    ELSE IF resolution = "1080p" THEN "1080p"
    ELSE IF resolution = "1024p" THEN "1080p"
    ELSE IF resolution = "768p" THEN "720p"
    ELSE "720p"

\* AudioIncluded without the test of audio_url
AudioIncluded_AlwaysMapped(param_mapping, audio_url) ==
    "audio_url" \in DOMAIN param_mapping

\* `"audio_url" in param_mapping and audio_url`
AudioIncluded(param_mapping, audio_url) ==
    "audio_url" \in DOMAIN param_mapping /\ Truthy(audio_url)

\* payload["input"] as build_model_payload leaves it, built from registry reg
build_model_payload(reg, model, image_url, prompt, seconds, resolution, audio_url) ==
    LET config == reg[model]
        param_mapping == config.param_mapping
        p0 == config.default_params
        p1 == IF "image_url" \in DOMAIN param_mapping
              THEN Put(p0, param_mapping.image_url, image_url) ELSE p0
        p2 == IF "prompt" \in DOMAIN param_mapping
              THEN Put(p1, param_mapping.prompt, prompt) ELSE p1
        p3 == IF "seconds" \in DOMAIN param_mapping
              THEN IF model = KLING_MODEL
                   THEN Put(p2, param_mapping.seconds, KlingDuration(seconds))
                   ELSE Put(p2, param_mapping.seconds, seconds)
              ELSE p2
        p4 == IF "resolution" \in DOMAIN param_mapping
              THEN IF model = KLING_MODEL
                   THEN LET d == IF "mode" \in DOMAIN p3 THEN p3
                                 ELSE Put(p3, "mode", "standard")
                            r == KlingResolution(resolution)
                        IN  Put(Put(d, "mode", r.mode),
                                param_mapping.resolution, r.ratio)
                   ELSE IF model = SEEDANCE_MODEL
                   THEN Put(p3, param_mapping.resolution,
                            SeedanceResolution(resolution))
                   ELSE Put(p3, param_mapping.resolution, resolution)
              ELSE p3
        p5 == IF AudioIncluded(param_mapping, audio_url)
              THEN Put(p4, param_mapping.audio_url, audio_url) ELSE p4
    IN  [input |-> p5]

\* RegistryAfterBuild when the payload is built on default_params itself
RegistryAfterBuild_Aliased(reg, model, payload) ==
    [reg EXCEPT ![model].default_params = payload.input]

\* the registry after a build: `default_params.copy()` keeps it apart from
\* the payload
RegistryAfterBuild(reg, model, payload) == reg

NoBuild ==
    [model |-> None, image_url |-> None, prompt |-> None, seconds |-> 0,
     resolution |-> None, audio_url |-> None, payload |-> [input |-> <<>>]]

\* the record of one call of build_model_payload
BuildOf(reg, model, image_url, prompt, seconds, resolution, audio_url) ==
    [model |-> model, image_url |-> image_url, prompt |-> prompt,
     seconds |-> seconds, resolution |-> resolution, audio_url |-> audio_url,
     payload |-> build_model_payload(reg, model, image_url, prompt, seconds,
                                     resolution, audio_url)]

\* ---- initial states --------------------------------------------------------
Pipelines == {"a", "b"}
ModelChoices == SUPPORTED_MODELS \cup {None, "acme/unknown"}
Texts == {"Hello!", "LONG"}
TextLen(t) == IF t = "LONG" THEN TTS_MAX_CHARS + 1 ELSE Len(t)

\* JobPromptOnly bodies for pipeline (a), JobPromptTTS bodies for pipeline (b)
Requests ==
    { [pipe |-> "a", model |-> m, user_context |-> u, text |-> None,
       voice_id |-> None,
       image_url |-> "https://example.com/pet.jpg", prompt |-> "Say hi",
       seconds |-> 6, resolution |-> "768p"] :
        m \in ModelChoices, u \in UserIds \cup {None} }
    \cup
    { [pipe |-> "b", model |-> m, user_context |-> u, text |-> t,
       voice_id |-> "voice-123",
       image_url |-> "https://example.com/pet.jpg", prompt |-> "Say hi",
       seconds |-> 6, resolution |-> "768p"] :
        m \in ModelChoices, u \in UserIds \cup {None}, t \in Texts }

NoRequest ==
    [pipe |-> None, model |-> None, user_context |-> None, text |-> None,
     voice_id |-> None, image_url |-> None, prompt |-> None,
     seconds |-> 0, resolution |-> None]

Configs ==
    [ELEVEN_API_KEY : BOOLEAN, SUPABASE_URL : BOOLEAN,
     SUPABASE_SERVICE_ROLE : BOOLEAN, REPLICATE_API_TOKEN : BOOLEAN]

NoLocals ==
    [model |-> None, prefix |-> None, user_id |-> None, mp3_bytes |-> None,
     audio_key |-> None, audio_public_url |-> None, final_key |-> None,
     final_url |-> None, video_url |-> None, final_bytes |-> None, keys |-> 0]

NoPrediction ==
    [status |-> None, create_status |-> 0, pred_id |-> None, creates |-> 0, reqs |-> 0,
     last |-> None, result |-> None, err |-> NoErr]

NoRemote ==
    [status |-> None, output |-> NoOutput, error |-> None, logs |-> None]

NoOutcome == [kind |-> None, value |-> <<>>, err |-> NoErr]

\* no helper has been called on its own
NoCall == [fn |-> None, args |-> <<>>, result |-> None]

\* the jobs in Active have a request in flight; the others never start
InitWith(Active, Reqs, Cfgs) ==
    /\ cfg \in Cfgs
    /\ \E f \in [Active -> Reqs] :
          req = [j \in Jobs |-> IF j \in Active THEN f[j] ELSE NoRequest]
    /\ pc = [j \in Jobs |-> IF j \in Active THEN "begin" ELSE "idle"]
    /\ loc = [j \in Jobs |-> NoLocals]
    /\ pred = [j \in Jobs |-> NoPrediction]
    /\ remote = [j \in Jobs |-> NoRemote]
    /\ objects = {}
    /\ records = {}
    /\ calls = [j \in Jobs |-> <<>>]
    /\ exc = [j \in Jobs |-> NoErr]
    /\ outcome = [j \in Jobs |-> NoOutcome]
    /\ blocked = 0
    /\ registry = ModelRegistry
    /\ built = NoBuild
    /\ tmpdirs = {}
    /\ called = NoCall

\* the provider answers with any output shape, error text and logs
AnyProvider == [outputs |-> Outputs, errors |-> ErrorTexts, logs |-> LogTexts]

Init == InitWith({1}, Requests, Configs) /\ provider = AnyProvider

\* ---- shared pieces of the handlers ----------------------------------------
\* the job runs only while no other job holds the event loop in time.sleep
Runnable(j) == blocked \in {0, j}

NoRecord ==
    [user_id |-> None, video_url |-> None, image_url |-> None, script |-> None,
     prompt |-> None, voice_id |-> None, resolution |-> None, duration |-> 0]

Call(op, key, arg) == [op |-> op, key |-> key, arg |-> arg, body |-> NoRecord]

Issue(j, call) == calls' = [calls EXCEPT ![j] = Append(@, call)]

\* the exception leaves the route handler
Propagate(j, e) ==
    /\ pc' = [pc EXCEPT ![j] = "raised"]
    /\ outcome' = [outcome EXCEPT ![j] = [kind |-> "raised", value |-> <<>>, err |-> e]]
    /\ exc' = exc

\* Caught by a handler that runs the failed stage again
Caught_Retry(j, e, final_key) ==
    /\ exc' = [exc EXCEPT ![j] = e]
    /\ pc' = pc
    /\ outcome' = outcome

\* the exception is caught by the handler's `except Exception` block, whose
\* first awaited call is a supabase_delete
Caught(j, e, final_key) ==
    /\ exc' = [exc EXCEPT ![j] = e]
    /\ pc' = [pc EXCEPT ![j] =
                IF req[j].pipe = "a" \/ final_key # None
                THEN "delete_final" ELSE "delete_audio"]
    /\ outcome' = outcome

\* an exception raised while job j is inside its try block or outside it
Raise(j, e, inTry, final_key) ==
    IF inTry THEN Caught(j, e, final_key) ELSE Propagate(j, e)

Proceed(j, next) ==
    /\ pc' = [pc EXCEPT ![j] = next]
    /\ UNCHANGED <<exc, outcome>>

\* replicate_video_from_prompt up to its first awaited call
GenerateCheck(model) ==
    IF ~cfg.REPLICATE_API_TOKEN
    THEN HTTPException(500, <<"Replicate API token not set">>)
    ELSE IF model \notin SUPPORTED_MODELS THEN UnsupportedModel(model)
    ELSE NoErr

\* supabase_upload / insert_pet_video up to their awaited call
SupabaseCheck ==
    IF ~SupabaseEnvSet THEN HTTPException(500, <<"Supabase env not set">>)
    ELSE NoErr

\* ---- route handlers up to their first awaited call -------------------------
Begin(j) ==
    /\ pc[j] = "begin"
    /\ Runnable(j)
    /\ LET model == IF req[j].model = None THEN DEFAULT_MODEL ELSE req[j].model
           r == resolve_user_storage_prefix(req[j].user_context)
           l1 == [loc[j] EXCEPT !.model = model]
           l2 == [l1 EXCEPT !.prefix = r.prefix, !.user_id = req[j].user_context]
       IN  IF ~r.ok
           THEN loc' = [loc EXCEPT ![j] = l1] /\ Propagate(j, r.err)
           ELSE /\ loc' = [loc EXCEPT ![j] = l2]
                /\ IF req[j].pipe = "a"
                   THEN IF model = S2V_MODEL
                        THEN Propagate(j, HTTPException(400,
                                 <<S2V_MODEL, "requires audio",
                                   "Use /jobs_prompt_tts endpoint instead.">>))
                        ELSE IF GenerateCheck(model) # NoErr
                        THEN Propagate(j, GenerateCheck(model))
                        ELSE Proceed(j, "create")
                   ELSE IF ~cfg.ELEVEN_API_KEY
                        THEN Propagate(j, HTTPException(500, <<"ELEVEN_API_KEY not set">>))
                        ELSE IF TextLen(req[j].text) > TTS_MAX_CHARS
                        THEN Propagate(j, HTTPException(400, <<"Text too long">>))
                        ELSE Proceed(j, "tts")
    /\ UNCHANGED <<tmpdirs, called, provider, registry, built, cfg, req, pred, remote, objects, records, calls, blocked>>

\* ---- elevenlabs_tts_bytes ---------------------------------------------------
AudioSizes == {MAX_AUDIO_BYTES, MAX_AUDIO_BYTES + 1}
Mp3(size) == "mp3:" \o ToString(size)

\* AudioTooLarge with the ceiling one byte higher
AudioTooLarge_OneMore(size) == size > MAX_AUDIO_BYTES + 1

\* `len(audio) > 9_500_000`
AudioTooLarge(size) == size > MAX_AUDIO_BYTES

Tts(j) ==
    /\ pc[j] = "tts"
    /\ Runnable(j)
    /\ Issue(j, Call("tts", None, <<req[j].text, req[j].voice_id>>))
    /\ \/ \E out \in {"transport", "status"} :
             loc' = loc /\ Propagate(j, HttpxError("tts", out))
       \/ \E size \in AudioSizes :
             IF AudioTooLarge(size)
             THEN loc' = loc
                  /\ Propagate(j, HTTPException(400, <<"Generated audio >9.5MB">>))
             ELSE /\ loc' = [loc EXCEPT ![j] =
                             [@ EXCEPT !.mp3_bytes = Mp3(size),
                                       !.audio_key = build_storage_key(
                                           loc[j].prefix, "audio", "mp3",
                                           Uuid4(j, loc[j].keys)),
                                       !.keys = @ + 1]]
                  /\ IF SupabaseCheck # NoErr
                     THEN Propagate(j, SupabaseCheck)
                     ELSE Proceed(j, "upload_audio")
    /\ UNCHANGED <<tmpdirs, called, provider, registry, built, cfg, req, pred, remote, objects, records, blocked>>

\* ---- supabase_upload of the audio, then the handler up to the create call --
\* the status codes the storage API answers an upload with
UploadStatuses == {200, 400, 500}

\* UploadRejected as `r.status_code > 400`
UploadRejected_Above400(status_code) == status_code > 400

\* `r.status_code >= 400`
UploadRejected(status_code) == status_code >= 400

UploadAudio(j) ==
    /\ pc[j] = "upload_audio"
    /\ Runnable(j)
    /\ Issue(j, Call("upload", loc[j].audio_key, <<loc[j].mp3_bytes, "audio/mpeg">>))
    /\ \/ /\ Propagate(j, HttpxError("upload", "transport"))
          /\ UNCHANGED <<loc, objects>>
       \/ \E status_code \in UploadStatuses :
             /\ objects' = IF status_code < 400
                           THEN objects \cup {loc[j].audio_key} ELSE objects
             /\ IF UploadRejected(status_code)
                THEN /\ Propagate(j, HTTPException(status_code, <<"Supabase upload failed">>))
                     /\ loc' = loc
                ELSE /\ loc' = [loc EXCEPT ![j].audio_public_url =
                                              PublicUrl(loc[j].audio_key)]
                     /\ IF GenerateCheck(loc[j].model) # NoErr
                        THEN Raise(j, GenerateCheck(loc[j].model), TRUE, None)
                        ELSE Proceed(j, "create")
    /\ UNCHANGED <<tmpdirs, called, provider, registry, built, cfg, req, pred, remote, records, blocked>>

\* ---- replicate_video_from_prompt -------------------------------------------
\* every stage of pipeline (b) after the audio upload runs inside the try block
InTry(j) == req[j].pipe = "b"

\* AudioArg of a handler that never passes the audio on
AudioArg_Never(j) == None

\* the audio_url argument the handler passes to generate_video_from_prompt
AudioArg(j) ==
    IF req[j].pipe = "b" /\ loc[j].model = S2V_MODEL
    THEN loc[j].audio_public_url ELSE None

\* MissingId as `pred_id is None`
MissingId_OnlyNone(pred_id) == pred_id = None

\* `not pred_id`
MissingId(pred_id) == pred_id = None \/ pred_id = ""

\* the status codes the provider answers a create request with
CreateStatuses == {201, 500}

\* the call of build_model_payload made for job j
PayloadBuild(j) ==
    BuildOf(registry, loc[j].model, req[j].image_url, req[j].prompt,
            req[j].seconds, req[j].resolution, AudioArg(j))

Create(j) ==
    /\ pc[j] = "create"
    /\ Runnable(j)
    /\ built' = PayloadBuild(j)
    /\ registry' = RegistryAfterBuild(registry, loc[j].model, built'.payload)
    /\ Issue(j, [Call("create", None, <<loc[j].model, AudioArg(j)>>)
                   EXCEPT !.body = built'.payload])
    /\ \/ LET e == HttpxError("create", "transport")
          IN  /\ pred' = [pred EXCEPT ![j].creates = @ + 1, ![j].err = e]
              /\ Raise(j, e, InTry(j), None)
              /\ remote' = remote
       \/ \E status_code \in CreateStatuses, id \in PredictionIds :
             IF status_code >= 400
             THEN LET e == HTTPException(status_code,
                               <<"Replicate create failed", loc[j].model>>)
                  IN  /\ id = None
                      /\ pred' = [pred EXCEPT ![j].creates = @ + 1,
                                              ![j].create_status = status_code,
                                              ![j].err = e]
                      /\ Raise(j, e, InTry(j), None)
                      /\ remote' = remote
             ELSE IF MissingId(id)
             THEN LET e == HTTPException(500, <<"Replicate missing prediction id">>)
                  IN  /\ pred' = [pred EXCEPT ![j].creates = @ + 1,
                                              ![j].create_status = status_code,
                                              ![j].pred_id = id, ![j].err = e]
                      /\ Raise(j, e, InTry(j), None)
                      /\ remote' = remote
             ELSE /\ pred' = [pred EXCEPT ![j].creates = @ + 1,
                                          ![j].create_status = status_code,
                                          ![j].pred_id = id,
                                          ![j].status = "Created"]
                  /\ remote' = [remote EXCEPT ![j].status = "starting"]
                  /\ Proceed(j, "poll")
    /\ UNCHANGED <<tmpdirs, called, provider, cfg, req, loc, objects, records, blocked>>

\* the provider works on the prediction; a terminal status is final
ProviderStep(j) ==
    /\ remote[j].status \in NonTerminal
    /\ \/ /\ remote[j].status = "starting"
          /\ remote' = [remote EXCEPT ![j].status = "processing"]
       \/ \E o \in provider.outputs :
             remote' = [remote EXCEPT ![j].status = "succeeded", ![j].output = o]
       \/ \E st \in {"failed", "canceled"}, e \in provider.errors,
             l \in provider.logs :
             remote' = [remote EXCEPT ![j].status = st, ![j].error = e, ![j].logs = l]
    /\ UNCHANGED <<tmpdirs, called, provider, registry, built, cfg, req, pc, loc, pred, objects, records, calls, exc,
                   outcome, blocked>>

Min(a, b) == IF a < b THEN a ELSE b

\* client.get of the prediction is issued
PollIssue(j) ==
    /\ pc[j] = "poll"
    /\ Runnable(j)
    /\ pred' = [pred EXCEPT ![j].status = "Polling",
                            ![j].reqs = Min(@ + 1, MaxPolls)]
    /\ Proceed(j, "poll_wait")
    /\ UNCHANGED <<tmpdirs, called, provider, registry, built, cfg, req, loc, remote, objects, records, calls, blocked>>

\* ExtractOutput taking the first element of a list output
ExtractOutput_First(output) ==
    IF output.kind = "list" /\ Len(output.items) > 0
    THEN output.items[1]
    ELSE IF output.kind = "str" THEN output.items[1]
    ELSE None

\* the result reference of a succeeded prediction, None if there is none
ExtractOutput(output) ==
    IF output.kind = "list" /\ Len(output.items) > 0
    THEN output.items[Len(output.items)]
    ELSE IF output.kind = "str" THEN output.items[1]
    ELSE None

StatusName(status) ==
    CASE status = "succeeded" -> "Succeeded"
      [] status = "failed" -> "Failed"
      [] status = "canceled" -> "Canceled"

\* the handler's code between the return of generate_video_from_prompt and
\* its next awaited call
AfterGenerate(j, video_url) ==
    IF req[j].pipe = "b" /\ loc[j].model = S2V_MODEL
    THEN /\ loc' = [loc EXCEPT ![j] =
                    [@ EXCEPT !.video_url = video_url,
                              !.final_key = build_storage_key(
                                  loc[j].prefix, "videos", "mp4",
                                  Uuid4(j, loc[j].keys)),
                              !.keys = @ + 1]]
         /\ Proceed(j, "fetch")
    ELSE /\ loc' = [loc EXCEPT ![j].video_url = video_url]
         /\ Proceed(j, IF req[j].pipe = "a" THEN "fetch" ELSE "mux")

\* Terminal without "canceled", and without "failed"
Terminal_NoCanceled == {"succeeded", "failed"}
Terminal_NoFailed == {"succeeded", "canceled"}

\* `status in ("succeeded", "failed", "canceled")`
Terminal == {"succeeded", "failed", "canceled"}

\* JobFailed reading the error text from a field the response does not have
JobFailed_NoErrorText(model, data) ==
    HTTPException(400, <<model, data.status, None, data.logs>>)

\* the HTTPException raised for a failed or canceled prediction
JobFailed(model, data) ==
    HTTPException(400, <<model, data.status, data.error, data.logs>>)

\* the response to the status request is handled
PollResponse(j) ==
    /\ pc[j] = "poll_wait"
    /\ Runnable(j)
    /\ \/ \E out \in {"transport", "status"} :
             /\ pred' = [pred EXCEPT ![j].last = "error",
                                     ![j].err = HttpxError("poll", out)]
             /\ Raise(j, HttpxError("poll", out), InTry(j), None)
             /\ UNCHANGED <<loc, blocked>>
       \/ LET data == remote[j]
              status == data.status
          IN  IF status \in Terminal
              THEN /\ blocked' = blocked
                   /\ IF status # "succeeded"
                      THEN /\ pred' = [pred EXCEPT ![j].status = StatusName(status),
                                                   ![j].last = status,
                                                   ![j].err = JobFailed(loc[j].model, data)]
                           /\ Raise(j, JobFailed(loc[j].model, data), InTry(j), None)
                           /\ loc' = loc
                      ELSE IF ExtractOutput(data.output) # None
                      THEN /\ pred' = [pred EXCEPT ![j].status = StatusName(status),
                                                   ![j].last = status,
                                                   ![j].result = ExtractOutput(data.output)]
                           /\ AfterGenerate(j, ExtractOutput(data.output))
                      ELSE LET e == HTTPException(500, <<"Replicate missing output URL">>)
                           IN  /\ pred' = [pred EXCEPT ![j].status = StatusName(status),
                                                       ![j].last = status,
                                                       ![j].err = e]
                               /\ Raise(j, e, InTry(j), None)
                               /\ loc' = loc
              ELSE \* time.sleep(2): the event loop is held by this job
                   /\ pred' = [pred EXCEPT ![j].last = status]
                   /\ blocked' = j
                   /\ Proceed(j, "sleep")
                   /\ loc' = loc
    /\ UNCHANGED <<tmpdirs, called, provider, registry, built, cfg, req, remote, objects, records, calls>>

\* time.sleep(2) returns and the loop goes round
Wake(j) ==
    /\ pc[j] = "sleep"
    /\ blocked = j
    /\ blocked' = 0
    /\ Proceed(j, "poll")
    /\ UNCHANGED <<tmpdirs, called, provider, registry, built, cfg, req, loc, pred, remote, objects, records, calls>>

\* ---- fetch_binary, then the handler up to the final upload ------------------
Fetch(j) ==
    /\ pc[j] = "fetch"
    /\ Runnable(j)
    /\ Issue(j, Call("fetch", None, <<loc[j].video_url>>))
    /\ \/ \E out \in {"transport", "status"} :
             /\ Raise(j, HttpxError("fetch", out), InTry(j), loc[j].final_key)
             /\ loc' = loc
       \/ LET bytes == ContentOf(loc[j].video_url)
              \* pipeline (a) builds the key here, (b) built it before the fetch
              l == IF req[j].pipe = "a"
                   THEN [loc[j] EXCEPT !.final_bytes = bytes,
                                       !.final_key = build_storage_key(
                                           loc[j].prefix, "videos", "mp4",
                                           Uuid4(j, loc[j].keys)),
                                       !.keys = @ + 1]
                   ELSE [loc[j] EXCEPT !.final_bytes = bytes]
          IN  /\ loc' = [loc EXCEPT ![j] = l]
              /\ IF SupabaseCheck # NoErr
                 THEN Raise(j, SupabaseCheck, InTry(j), l.final_key)
                 ELSE Proceed(j, "upload_final")
    /\ UNCHANGED <<tmpdirs, called, provider, registry, built, cfg, req, pred, remote, objects, records, blocked>>

\* ---- mux_video_audio, then the handler up to the final upload ---------------
\* tempfile.mkdtemp() of the mux of job j: a fresh directory
TmpDir(j) == "/tmp/tmp" \o ToString(j)

\* the directories on disk when mux_video_audio exits: shutil.rmtree(tmpdir)
\* is its last statement before the return, and no exception handler runs it
TmpAfterMux(dirs, tmpdir, returned) ==
    IF returned THEN dirs \ {tmpdir} ELSE dirs \cup {tmpdir}

Mux(j) ==
    /\ pc[j] = "mux"
    /\ Runnable(j)
    /\ Issue(j, Call("mux", None, <<loc[j].video_url, loc[j].audio_public_url>>))
    /\ \/ /\ Raise(j, HttpxError("mux", "download"), TRUE, None)
          /\ loc' = loc
          /\ tmpdirs' = TmpAfterMux(tmpdirs, TmpDir(j), FALSE)
       \/ /\ Raise(j, OtherError("ffmpeg"), TRUE, None)
          /\ loc' = loc
          /\ tmpdirs' = TmpAfterMux(tmpdirs, TmpDir(j), FALSE)
       \/ LET l == [loc[j] EXCEPT
                        !.final_bytes = MuxedBytes(loc[j].video_url,
                                                   loc[j].audio_public_url),
                        !.final_key = build_storage_key(
                            loc[j].prefix, "videos", "mp4", Uuid4(j, loc[j].keys)),
                        !.keys = @ + 1]
          IN  /\ loc' = [loc EXCEPT ![j] = l]
              /\ IF SupabaseCheck # NoErr
                 THEN Raise(j, SupabaseCheck, TRUE, l.final_key)
                 ELSE Proceed(j, "upload_final")
              /\ tmpdirs' = TmpAfterMux(tmpdirs, TmpDir(j), TRUE)
    /\ UNCHANGED <<called, provider, registry, built, cfg, req, pred, remote, objects, records, blocked>>

\* ---- supabase_upload of the final video, then insert_pet_video's checks ----
UploadFinal(j) ==
    /\ pc[j] = "upload_final"
    /\ Runnable(j)
    /\ Issue(j, Call("upload", loc[j].final_key, <<loc[j].final_bytes, "video/mp4">>))
    /\ \/ /\ Raise(j, HttpxError("upload", "transport"), InTry(j), loc[j].final_key)
          /\ UNCHANGED <<loc, objects>>
       \/ \E status_code \in UploadStatuses :
             /\ objects' = IF status_code < 400
                           THEN objects \cup {loc[j].final_key} ELSE objects
             /\ IF UploadRejected(status_code)
                THEN /\ Raise(j, HTTPException(status_code, <<"Supabase upload failed">>),
                              InTry(j), loc[j].final_key)
                     /\ loc' = loc
                ELSE /\ loc' = [loc EXCEPT ![j].final_url = PublicUrl(loc[j].final_key)]
                     /\ IF SupabaseCheck # NoErr
                        THEN Raise(j, SupabaseCheck, TRUE, loc[j].final_key)
                        ELSE Proceed(j, "insert")
    /\ UNCHANGED <<tmpdirs, called, provider, registry, built, cfg, req, pred, remote, records, blocked>>

\* ---- insert_pet_video -------------------------------------------------------
\* InsertPayload with the prompt stored as the script
InsertPayload_PromptAsScript(j) ==
    [user_id |-> loc[j].user_id,
     video_url |-> loc[j].final_url,
     image_url |-> req[j].image_url,
     script |-> req[j].prompt,
     prompt |-> req[j].prompt,
     voice_id |-> IF req[j].pipe = "a" THEN None ELSE req[j].voice_id,
     resolution |-> req[j].resolution,
     duration |-> req[j].seconds]

\* the JSON body posted to the pet_videos table (created_at left out)
InsertPayload(j) ==
    [user_id |-> loc[j].user_id,
     video_url |-> loc[j].final_url,
     image_url |-> req[j].image_url,
     script |-> IF req[j].pipe = "a" THEN None ELSE req[j].text,
     prompt |-> req[j].prompt,
     voice_id |-> IF req[j].pipe = "a" THEN None ELSE req[j].voice_id,
     resolution |-> req[j].resolution,
     duration |-> req[j].seconds]

ReturnValue(j) ==
    IF req[j].pipe = "a"
    THEN <<loc[j].video_url, loc[j].final_url>>
    ELSE <<loc[j].audio_public_url, loc[j].video_url, loc[j].final_url>>

\* "stored_then_transport": the store accepted the row, the response was lost
InsertOutcomes == {"ok", "error", "transport", "stored_then_transport"}

Insert(j) ==
    /\ pc[j] = "insert"
    /\ Runnable(j)
    /\ Issue(j, [Call("insert", None, <<>>) EXCEPT !.body = InsertPayload(j)])
    /\ \E out \in InsertOutcomes :
          CASE out = "ok" ->
                 /\ records' = records \cup {InsertPayload(j)}
                 /\ pc' = [pc EXCEPT ![j] = "returned"]
                 /\ outcome' = [outcome EXCEPT ![j] =
                        [kind |-> "returned", value |-> ReturnValue(j), err |-> NoErr]]
                 /\ exc' = exc
            [] out = "error" ->
                 /\ records' = records
                 /\ Caught(j, HTTPException(500, <<"Supabase metadata insert failed">>),
                           loc[j].final_key)
            [] out = "transport" ->
                 /\ records' = records
                 /\ Caught(j, HttpxError("insert", "transport"), loc[j].final_key)
            [] out = "stored_then_transport" ->
                 /\ records' = records \cup {InsertPayload(j)}
                 /\ Caught(j, HttpxError("insert", "transport"), loc[j].final_key)
    /\ UNCHANGED <<tmpdirs, called, provider, registry, built, cfg, req, loc, pred, remote, objects, blocked>>

\* ---- supabase_delete and the except blocks ---------------------------------
\* "other": the request raises an exception that is not an httpx.HTTPError
DeleteOutcomes == {"ok", "error", "transport", "other"}

\* supabase_delete(object_path) with outcome out: the call it issues, what is
\* left in the bucket, and the exception that escapes it (NoErr if none)
supabase_delete(j, object_path, out) ==
    IF ~SupabaseEnvSet \/ object_path = None \/ object_path = ""
    THEN [calls |-> calls[j], objects |-> objects, err |-> NoErr]
    ELSE [calls |-> Append(calls[j], Call("delete", object_path, <<>>)),
          objects |-> IF out = "ok" THEN objects \ {object_path} ELSE objects,
          err |-> IF out = "other" THEN OtherError("delete") ELSE NoErr]

\* an except block that ends without `raise`: the handler returns normally
Reraise_Swallow(j) ==
    /\ pc' = [pc EXCEPT ![j] = "returned"]
    /\ outcome' = [outcome EXCEPT ![j] =
           [kind |-> "returned", value |-> <<>>, err |-> NoErr]]
    /\ exc' = exc

\* the bare `raise` that ends either except block
Reraise(j) == Propagate(j, exc[j])

\* `await supabase_delete(final_key)` of either except block
DeleteFinal(j) ==
    /\ pc[j] = "delete_final"
    /\ Runnable(j)
    /\ \E out \in DeleteOutcomes :
          LET d == supabase_delete(j, loc[j].final_key, out)
          IN  /\ calls' = [calls EXCEPT ![j] = d.calls]
              /\ objects' = d.objects
              /\ IF d.err # NoErr THEN Propagate(j, d.err)
                 ELSE IF req[j].pipe = "a" THEN Reraise(j)
                 ELSE Proceed(j, "delete_audio")
    /\ UNCHANGED <<tmpdirs, called, provider, registry, built, cfg, req, loc, pred, remote, records, blocked>>

\* `await supabase_delete(audio_key)` of pipeline (b), then the bare raise
DeleteAudio(j) ==
    /\ pc[j] = "delete_audio"
    /\ Runnable(j)
    /\ \E out \in DeleteOutcomes :
          LET d == supabase_delete(j, loc[j].audio_key, out)
          IN  /\ calls' = [calls EXCEPT ![j] = d.calls]
              /\ objects' = d.objects
              /\ IF d.err # NoErr THEN Propagate(j, d.err)
                 ELSE Reraise(j)
    /\ UNCHANGED <<tmpdirs, called, provider, registry, built, cfg, req, loc, pred, remote, records, blocked>>

\* ---- specification -----------------------------------------------------------
JobNext(j) ==
    \/ Begin(j)
    \/ Tts(j)
    \/ UploadAudio(j)
    \/ Create(j)
    \/ PollIssue(j)
    \/ PollResponse(j)
    \/ Wake(j)
    \/ Fetch(j)
    \/ Mux(j)
    \/ UploadFinal(j)
    \/ Insert(j)
    \/ DeleteFinal(j)
    \/ DeleteAudio(j)

Next == \E j \in Jobs : JobNext(j) \/ ProviderStep(j)

Spec == Init /\ [][Next]_vars

\* every awaited call returns and a ready coroutine is resumed; the provider
\* is under no obligation to make progress
LiveSpec == Spec /\ \A j \in Jobs : WF_vars(JobNext(j))

\* two requests in flight on the one event loop: every credential set,
\* anonymous callers, job 2 on the prompt-only route, and a provider that
\* answers with one output or one error
ConcRequests ==
    { r \in Requests :
        /\ r.user_context = None
        /\ r.pipe = "a" => r.model = None
        /\ r.pipe = "b" => r.model \in {None, S2V_MODEL} /\ r.text = "Hello!" }

ConcProvider ==
    [outputs |-> { [kind |-> "str", items |-> <<"u1">>] },
     errors |-> {"boom"}, logs |-> {None}]

ConcInit ==
    /\ InitWith({1, 2}, ConcRequests,
                { c \in Configs : /\ c.ELEVEN_API_KEY /\ c.SUPABASE_URL
                                  /\ c.SUPABASE_SERVICE_ROLE
                                  /\ c.REPLICATE_API_TOKEN })
    /\ req[2].pipe = "a"
    /\ provider = ConcProvider

ConcSpec == ConcInit /\ [][Next]_vars

\* ---- build_model_payload called on its own --------------------------------
\* the arguments the calls are made with
Seconds == -1..MaxSeconds
Resolutions == {"480p", "512p", "720p", "768p", "1024p", "1080p", "4k"}
AudioUrls == {None, "", "https://example.com/voice.mp3"}

BuildInit ==
    /\ InitWith({}, Requests,
                { c \in Configs : /\ c.ELEVEN_API_KEY /\ c.SUPABASE_URL
                                  /\ c.SUPABASE_SERVICE_ROLE
                                  /\ c.REPLICATE_API_TOKEN })
    /\ provider = AnyProvider

\* one call of build_model_payload for a supported model
Build ==
    /\ \E model \in DOMAIN registry, seconds \in Seconds,
          resolution \in Resolutions, audio_url \in AudioUrls :
          /\ built' = BuildOf(registry, model, "https://example.com/pet.jpg",
                              "Say hi", seconds, resolution, audio_url)
          /\ registry' = RegistryAfterBuild(registry, model, built'.payload)
    /\ UNCHANGED <<tmpdirs, called, provider, cfg, req, pc, loc, pred, remote, objects, records,
                   calls, exc, outcome, blocked>>

BuildNext == Build

BuildSpec == BuildInit /\ [][BuildNext]_vars

\* ---- build_storage_key called on its own ------------------------------------
\* the components the calls are made with
KeyPrefixes ==
    { "anonymous", "users/00000000-0000-0000-0000-000000000000", "", "/",
      "..", "../etc", "users/../../etc", "....//", "a/.." }
KeyCategories == {"audio", "videos", "..", "../etc", "a..b"}
KeyExtensions == {"mp3", "mp4", "..", "mp4/../x"}

KeyInit ==
    /\ InitWith({}, Requests,
                { c \in Configs : /\ c.ELEVEN_API_KEY /\ c.SUPABASE_URL
                                  /\ c.SUPABASE_SERVICE_ROLE
                                  /\ c.REPLICATE_API_TOKEN })
    /\ provider = AnyProvider

\* one call of build_storage_key
BuildKey ==
    /\ \E prefix \in KeyPrefixes, category \in KeyCategories,
          extension \in KeyExtensions :
          called' = [fn |-> "build_storage_key",
                     args |-> <<prefix, category, extension>>,
                     result |-> build_storage_key(prefix, category, extension,
                                                  Uuid4(0, 0))]
    /\ UNCHANGED <<tmpdirs, provider, registry, built, cfg, req, pc, loc, pred,
                   remote, objects, records, calls, exc, outcome, blocked>>

KeyNext == BuildKey

KeySpec == KeyInit /\ [][KeyNext]_vars

\* ---- require_auth called on its own -----------------------------------------
\* str.partition(" "): the text before the first space and the text after it
RECURSIVE PartitionAt(_, _)
PartitionAt(s, i) ==
    IF i > Len(s) THEN [head |-> s, tail |-> ""]
    ELSE IF SubSeq(s, i, i) = " "
    THEN [head |-> SubSeq(s, 1, i - 1), tail |-> SubSeq(s, i + 1, Len(s))]
    ELSE PartitionAt(s, i + 1)

Partition(s) == PartitionAt(s, 1)

\* str.lower() on ASCII letters
LowerChar(c) ==
    LET upper == "ABCDEFGHIJKLMNOPQRSTUVWXYZ"
        lower == "abcdefghijklmnopqrstuvwxyz"
        at == { i \in 1..Len(upper) : SubSeq(upper, i, i) = c }
    IN  IF at = {} THEN c ELSE LET i == CHOOSE i \in at : TRUE
                               IN  SubSeq(lower, i, i)

RECURSIVE Lower(_)
Lower(s) == IF s = "" THEN "" ELSE LowerChar(Head(s)) \o Lower(Tail(s))

\* "~" stands for a character of a latin-1 header value above U+007F
IsAscii(s) == \A i \in 1..Len(s) : SubSeq(s, i, i) # "~"

\* secrets.compare_digest on two str: it compares ASCII strings and raises
\* TypeError for any other
CompareDigest(a, b) ==
    IF IsAscii(a) /\ IsAscii(b)
    THEN [ok |-> TRUE, equal |-> a = b]
    ELSE [ok |-> FALSE, equal |-> FALSE]

\* require_auth: NoErr when the request passes, else the exception raised
require_auth(API_AUTH_ENABLED, API_AUTH_TOKEN, authorization) ==
    IF ~API_AUTH_ENABLED THEN NoErr
    ELSE IF API_AUTH_TOKEN = ""
    THEN HTTPException(500,
             <<"API authentication is enabled but API_AUTH_TOKEN is not configured.">>)
    ELSE IF authorization = None \/ authorization = ""
    THEN HTTPException(401, <<"Missing Authorization header">>)
    ELSE LET scheme == Partition(authorization).head
             token == Partition(authorization).tail
         IN  IF Lower(scheme) # "bearer" \/ token = ""
             THEN HTTPException(401,
                      <<"Authorization header must be 'Bearer <token>'">>)
             ELSE IF ~CompareDigest(token, API_AUTH_TOKEN).ok
             THEN [exc |-> "TypeError", status |-> 0,
                   detail |-> <<"compare_digest">>]
             ELSE IF ~CompareDigest(token, API_AUTH_TOKEN).equal
             THEN HTTPException(403, <<"Invalid API token">>)
             ELSE NoErr

\* the configured tokens and the Authorization headers the calls are made with
AuthTokens == {"", "secret", "s3", "s~cret"}
AuthHeaders ==
    { None, "", "Bearer secret", "bearer secret", "BEARER secret", "Bearer s3",
      "Bearer nope", "Bearer", "Bearer ", "Bearer  secret",
      "Bearer secret extra", "Basic secret", "secret", "Bearer s~cret" }

AuthInit ==
    /\ InitWith({}, Requests,
                { c \in Configs : /\ c.ELEVEN_API_KEY /\ c.SUPABASE_URL
                                  /\ c.SUPABASE_SERVICE_ROLE
                                  /\ c.REPLICATE_API_TOKEN })
    /\ provider = AnyProvider

\* one request goes through the dependency require_auth
Auth ==
    /\ \E enabled \in BOOLEAN, configured \in AuthTokens,
          authorization \in AuthHeaders :
          called' = [fn |-> "require_auth",
                     args |-> <<enabled, configured, authorization>>,
                     result |-> require_auth(enabled, configured, authorization)]
    /\ UNCHANGED <<tmpdirs, provider, registry, built, cfg, req, pc, loc, pred,
                   remote, objects, records, calls, exc, outcome, blocked>>

AuthNext == Auth

AuthSpec == AuthInit /\ [][AuthNext]_vars

TypeOK ==
    /\ cfg \in Configs
    /\ \A j \in Jobs :
          /\ pc[j] \in {"idle", "begin", "tts", "upload_audio", "create", "poll",
                        "poll_wait", "sleep", "fetch", "mux", "upload_final",
                        "insert", "delete_final", "delete_audio", "returned",
                        "raised"}
          /\ pred[j].reqs \in 0..MaxPolls
          /\ remote[j].output \in Outputs
    /\ blocked \in {0} \cup Jobs

\* ---- properties: the submit-and-poll state machine -------------------------
PollLoop == {"poll", "poll_wait", "sleep"}

CallsOf(j, ops) == { i \in 1..Len(calls[j]) : calls[j][i].op \in ops }

\* the moves Created -> Polling -> {Succeeded, Failed, Canceled}
StatusMoves ==
    { <<None, "Created">>, <<"Created", "Polling">>, <<"Polling", "Succeeded">>,
      <<"Polling", "Failed">>, <<"Polling", "Canceled">> }

\* C1: a job's status only moves Created -> Polling -> one of Succeeded,
\* Failed, Canceled; once a status response has reported succeeded, failed or
\* canceled, no further status request is issued for the job and its status
\* never changes again.
C1_TerminalStatusIsFinal ==
    [][\A j \in Jobs :
         /\ \/ pred'[j].status = pred[j].status
            \/ <<pred[j].status, pred'[j].status>> \in StatusMoves
         /\ (pred[j].last \notin Final /\ pred'[j].last \in Final)
               => pred'[j].status \in {"Succeeded", "Failed", "Canceled"}
         /\ pred[j].last \in Final
               => /\ pred'[j].status = pred[j].status
                  /\ pred'[j].last = pred[j].last
                  /\ pred'[j].reqs = pred[j].reqs
                  /\ pc'[j] \notin PollLoop]_vars

C1_Witness ==
    /\ pred[1].last \in Final
    /\ pred[1].reqs >= 2
    /\ pc[1] \in {"returned", "raised"}

\* C2: the poll loop is left only on a terminal status (or a status request
\* that fails): once the provider holds a terminal status the poller eventually
\* returns or raises, and after a non-terminal response the poller always
\* polls again, however many requests it has already made.
C2_LoopEndsExactlyOnTerminal ==
    /\ \A j \in Jobs :
          (pc[j] \in PollLoop /\ remote[j].status \in Final)
             ~> (pc[j] \notin PollLoop
                   /\ (pred[j].result # None \/ pred[j].err # NoErr))
    /\ \A j \in Jobs : (pc[j] = "sleep") ~> (pc[j] = "poll_wait")
    /\ [][\A j \in Jobs :
            (pc[j] \in PollLoop /\ pc'[j] \notin PollLoop)
               => pred'[j].last \in Final \cup {"error"}]_vars

C2_Witness ==
    /\ pred[1].reqs = MaxPolls
    /\ pred[1].last \in NonTerminal
    /\ pc[1] = "poll_wait"

\* C3: when the prediction succeeded the poller returns the last element of a
\* non-empty list output, the value itself of a string output, and raises the
\* missing-output error for every other output.
C3_SucceededOutput ==
    \A j \in Jobs :
        pred[j].last = "succeeded" =>
            LET o == remote[j].output
            IN  IF o.kind = "list" /\ Len(o.items) > 0
                THEN /\ pred[j].result = o.items[Len(o.items)]
                     /\ pred[j].err = NoErr
                     /\ loc[j].video_url = o.items[Len(o.items)]
                ELSE IF o.kind = "str"
                THEN /\ pred[j].result = o.items[1]
                     /\ pred[j].err = NoErr
                     /\ loc[j].video_url = o.items[1]
                ELSE /\ pred[j].result = None
                     /\ pred[j].err = HTTPException(500, <<"Replicate missing output URL">>)
                     /\ loc[j].video_url = None

C3_Witness ==
    /\ pred[1].last = "succeeded"
    /\ pred[1].reqs >= 3
    /\ remote[1].output = [kind |-> "list", items |-> <<"u1", "u2">>]
    /\ pred[1].result = "u2"

\* C4: when the terminal status is failed or canceled the poller raises an
\* error carrying the provider's error text and logs, returns no result, and
\* the pipeline performs no fetch, no mux, no final upload and no record write.
C4_FailedJobStopsPipeline ==
    \A j \in Jobs :
        pred[j].last \in {"failed", "canceled"} =>
            /\ pred[j].err.exc = "HTTPException"
            /\ pred[j].err.detail[2] = remote[j].status
            /\ pred[j].err.detail[3] = remote[j].error
            /\ pred[j].err.detail[4] = remote[j].logs
            /\ pred[j].result = None
            /\ loc[j].video_url = None
            /\ CallsOf(j, {"fetch", "mux", "insert"}) = {}
            /\ \A i \in CallsOf(j, {"upload"}) : calls[j][i].arg[2] # "video/mp4"

C4_Witness ==
    /\ pred[1].last = "canceled"
    /\ remote[1].error = "boom"
    /\ remote[1].logs = "log line"
    /\ req[1].pipe = "b"
    /\ pc[1] = "raised"

\* C5: a create response without a job identifier makes submission fail with
\* the missing-id error; the create call is not repeated and no status request
\* is ever issued (the job never enters Polling).
C5_MissingIdIsSubmissionError ==
    \A j \in Jobs :
        (pred[j].create_status \in 200..299 /\ pred[j].pred_id \in {None, ""}) =>
            /\ pred[j].err = HTTPException(500, <<"Replicate missing prediction id">>)
            /\ pred[j].creates = 1
            /\ Cardinality(CallsOf(j, {"create"})) = 1
            /\ pred[j].reqs = 0
            /\ pred[j].status = None
            /\ pc[j] \notin PollLoop

C5_Witness ==
    /\ pred[1].create_status = 201
    /\ pred[1].pred_id = ""
    /\ pc[1] = "raised"

\* ---- properties: compensation and the metadata record ----------------------
\* the record write of job j was attempted and failed
InsertFailed(j) ==
    /\ CallsOf(j, {"insert"}) # {}
    /\ pc[j] \in {"delete_final", "delete_audio", "raised"}

\* the keys of the delete requests job j issued, in order
RECURSIVE DeletedKeys(_, _)
DeletedKeys(j, n) ==
    IF n = 0 THEN <<>>
    ELSE IF calls[j][n].op = "delete"
    THEN Append(DeletedKeys(j, n - 1), calls[j][n].key)
    ELSE DeletedKeys(j, n - 1)

\* C6: in pipeline (a), when the record write fails after the upload
\* succeeded, exactly one delete is issued, for the uploaded key, and the error
\* reaching the caller is the record-write error whatever the delete did.
C6_CompensatingDeleteKeepsError ==
    \A j \in Jobs :
        (req[j].pipe = "a" /\ InsertFailed(j) /\ pc[j] = "raised") =>
            /\ DeletedKeys(j, Len(calls[j])) = <<loc[j].final_key>>
            /\ loc[j].final_key \in { calls[j][i].key : i \in CallsOf(j, {"upload"}) }
            /\ outcome[j].err = exc[j]
            /\ outcome[j].err.detail \in { <<"Supabase metadata insert failed">>,
                                           <<"insert", "transport">> }

\* C7: in pipeline (b), when the record write fails, one delete is issued for
\* the final video key and one for the audio key, and the error reaching the
\* caller is the record-write error.
C7_BothDeletesKeepError ==
    \A j \in Jobs :
        (req[j].pipe = "b" /\ InsertFailed(j) /\ pc[j] = "raised") =>
            /\ DeletedKeys(j, Len(calls[j])) = <<loc[j].final_key, loc[j].audio_key>>
            /\ outcome[j].err = exc[j]

\* C8: supabase_delete never raises: whatever the delete request does, no
\* exception of the delete reaches the except block that called it.
C8_DeleteNeverRaises ==
    \A j \in Jobs : outcome[j].err # OtherError("delete")

\* C9: a run that returns successfully to the caller has issued no delete.
C9_NoDeleteOnSuccess ==
    \A j \in Jobs : pc[j] = "returned" => CallsOf(j, {"delete"}) = {}

C9_Witness ==
    /\ pc[1] = "returned"
    /\ req[1].pipe = "b"
    /\ {loc[1].audio_key, loc[1].final_key} \subseteq objects
    /\ Cardinality(CallsOf(1, {"upload"})) = 2

\* the step issues the record write of job j
IssuesInsert(j) ==
    /\ Len(calls'[j]) = Len(calls[j]) + 1
    /\ calls'[j][Len(calls'[j])].op = "insert"

\* C10: the record write is attempted at most once per job and only when the
\* final video is stored and, in pipeline (b), the audio is stored; a record
\* the store holds is never changed or removed by a later step.
C10_RecordWrittenOnceAfterUploads ==
    [][/\ \A j \in Jobs :
            IssuesInsert(j) =>
                /\ CallsOf(j, {"insert"}) = {}
                /\ loc[j].final_key \in objects
                /\ loc[j].final_url = PublicUrl(loc[j].final_key)
                /\ req[j].pipe = "b" => loc[j].audio_key \in objects
       /\ records \subseteq records'
       /\ Cardinality(records') <= Cardinality(records) + 1]_vars

C10_Witness ==
    /\ pc[1] = "returned"
    /\ req[1].pipe = "b"
    /\ Cardinality(CallsOf(1, {"insert"})) = 1
    /\ records = {InsertPayload(1)}


\* ---- properties: validation and configuration failures ----------------------
\* the request of job j names a model id the registry does not hold
UnknownModel(j) ==
    req[j].pipe # None /\ req[j].model # None /\ req[j].model \notin DOMAIN ModelRegistry

\* nothing but the model id can make the request of job j fail validation
ValidButModel(j) ==
    /\ req[j].pipe # None
    /\ resolve_user_storage_prefix(req[j].user_context).ok
    /\ req[j].pipe = "b" => TextLen(req[j].text) <= TTS_MAX_CHARS

AllCredentials ==
    /\ cfg.ELEVEN_API_KEY /\ cfg.SUPABASE_URL
    /\ cfg.SUPABASE_SERVICE_ROLE /\ cfg.REPLICATE_API_TOKEN

\* C11: in both pipelines a request naming a model id that is not in the
\* registry fails with the validation error that lists the valid ids, the
\* default model is never substituted for it, and no remote call is issued
\* before it fails.  The code violates this in pipeline (b): the model id is
\* looked up only inside replicate_video_from_prompt, after the speech was
\* synthesised and the audio uploaded.
C11_UnknownModelFailsBeforeAnyCall ==
    \A j \in Jobs :
        UnknownModel(j) =>
            /\ loc[j].model # DEFAULT_MODEL
            /\ pc[j] # "returned"
            /\ calls[j] = <<>>
            /\ (pc[j] = "raised" /\ ValidButModel(j) /\ AllCredentials)
                  => outcome[j].err = UnsupportedModel(req[j].model)

\* the credentials some stage of the pipeline of job j reads
MissingCredential(j) ==
    \/ ~cfg.REPLICATE_API_TOKEN
    \/ ~cfg.SUPABASE_URL
    \/ ~cfg.SUPABASE_SERVICE_ROLE
    \/ req[j].pipe = "b" /\ ~cfg.ELEVEN_API_KEY

ConfigurationErrors ==
    { HTTPException(500, <<"ELEVEN_API_KEY not set">>),
      HTTPException(500, <<"Supabase env not set">>),
      HTTPException(500, <<"Replicate API token not set">>) }

\* the request of job j passes every validation of its pipeline
ValidRequest(j) ==
    /\ ValidButModel(j)
    /\ loc[j].model \in DOMAIN ModelRegistry
    /\ req[j].pipe = "a" => "audio_url" \notin DOMAIN ModelRegistry[loc[j].model].param_mapping

\* C12: when a credential that a stage of the selected pipeline needs is
\* missing, the job fails with a configuration error and no remote call is
\* attempted before it fails.  The code violates this: the Supabase settings
\* are read inside supabase_upload and the Replicate token inside
\* replicate_video_from_prompt, after earlier stages made their calls.
C12_MissingCredentialFailsBeforeAnyCall ==
    \A j \in Jobs :
        (pc[j] \notin {"idle", "begin"} /\ ValidRequest(j) /\ MissingCredential(j)) =>
            /\ calls[j] = <<>>
            /\ pc[j] = "raised"
            /\ outcome[j].err \in ConfigurationErrors

\* ---- properties: the two pipelines -------------------------------------------
\* the registry gives model an audio field
MapsAudio(model) ==
    model \in DOMAIN ModelRegistry
    /\ "audio_url" \in DOMAIN ModelRegistry[model].param_mapping

\* the provider names the registry gives the audio field
AudioFields ==
    { ModelRegistry[m].param_mapping.audio_url :
        m \in { x \in DOMAIN ModelRegistry : MapsAudio(x) } }

\* the operations of the calls job j has issued, in order
Ops(j) == [i \in 1..Len(calls[j]) |-> calls[j][i].op]

\* C13: in pipeline (a) a request for a registry model whose mapping has an
\* audio field fails with the error that directs the caller to
\* /jobs_prompt_tts, and no generation, fetch, upload or record write is made.
C13_AudioModelRejectedInPromptOnly ==
    \A j \in Jobs :
        (req[j].pipe = "a" /\ MapsAudio(loc[j].model) /\ pc[j] # "begin") =>
            /\ pc[j] = "raised"
            /\ calls[j] = <<>>
            /\ pred[j].creates = 0
            /\ records = {} /\ objects = {}
            /\ resolve_user_storage_prefix(req[j].user_context).ok
                  => outcome[j].err =
                        HTTPException(400, <<loc[j].model, "requires audio",
                                   "Use /jobs_prompt_tts endpoint instead.">>)

C13_Witness ==
    /\ req[1].pipe = "a"
    /\ MapsAudio(loc[1].model)
    /\ AllCredentials
    /\ pc[1] = "raised"
    /\ outcome[1].err.status = 400
    /\ outcome[1].err.detail[2] = "requires audio"

\* the payload of a create call carries url in an audio field
CarriesAudio(payload, url) ==
    \E k \in AudioFields \cap DOMAIN payload.input : payload.input[k] = url

HasAudioField(payload) == AudioFields \cap DOMAIN payload.input # {}

\* C14: in pipeline (b) the generation call carries the public URL of the
\* uploaded audio if and only if the model maps an audio field; the muxer is
\* invoked, once and with the generated video's URI and the audio's URI, if
\* and only if it does not; for a model that maps audio the bytes of the final
\* upload are the ones fetched from the provider's result URI.
C14_AudioRouting ==
    \A j \in Jobs :
        req[j].pipe = "b" =>
            /\ \A i \in CallsOf(j, {"create"}) :
                  /\ \E u \in CallsOf(j, {"upload"}) :
                        u < i /\ calls[j][u].key = loc[j].audio_key
                  /\ loc[j].audio_public_url = PublicUrl(loc[j].audio_key)
                  /\ MapsAudio(loc[j].model)
                        <=> CarriesAudio(calls[j][i].body, loc[j].audio_public_url)
                  /\ ~MapsAudio(loc[j].model) => ~HasAudioField(calls[j][i].body)
            /\ Cardinality(CallsOf(j, {"mux"})) <= 1
            /\ \A i \in CallsOf(j, {"mux"}) :
                  /\ ~MapsAudio(loc[j].model)
                  /\ calls[j][i].arg = <<pred[j].result, loc[j].audio_public_url>>
            /\ (~MapsAudio(loc[j].model) /\ pred[j].result # None /\ pc[j] # "mux")
                  => CallsOf(j, {"mux"}) # {}
            /\ MapsAudio(loc[j].model) =>
                  \A i \in CallsOf(j, {"upload"}) :
                      calls[j][i].key = loc[j].final_key
                          => /\ \E f \in CallsOf(j, {"fetch"}) :
                                    /\ f < i
                                    /\ calls[j][f].arg = <<pred[j].result>>
                             /\ calls[j][i].arg[1] = ContentOf(pred[j].result)

C14_Witness ==
    /\ pc[1] = "returned"
    /\ req[1].pipe = "b"
    /\ MapsAudio(loc[1].model)
    /\ \E i \in CallsOf(1, {"create"}) :
          CarriesAudio(calls[1][i].body, loc[1].audio_public_url)
    /\ loc[1].final_bytes = ContentOf(pred[1].result)

\* C15: a successful run of pipeline (b) with a model that maps no audio
\* field makes exactly these calls in this order: one speech synthesis, one
\* audio upload, one generation call without an audio field, one muxer
\* invocation, one final upload, one record write whose script is the
\* request's text.
C15_MuxedRunCalls ==
    \A j \in Jobs :
        (pc[j] = "returned" /\ req[j].pipe = "b" /\ ~MapsAudio(loc[j].model)) =>
            /\ Ops(j) = <<"tts", "upload", "create", "mux", "upload", "insert">>
            /\ pred[j].creates = 1
            /\ calls[j][1].arg = <<req[j].text, req[j].voice_id>>
            /\ calls[j][2].key = loc[j].audio_key
            /\ ~HasAudioField(calls[j][3].body)
            /\ calls[j][3].arg[2] = None
            /\ calls[j][5].key = loc[j].final_key
            /\ calls[j][5].key # calls[j][2].key
            /\ calls[j][6].body.script = req[j].text

C15_Witness ==
    /\ pc[1] = "returned"
    /\ req[1].pipe = "b"
    /\ loc[1].model = "kwaivgi/kling-v2.1"
    /\ Len(calls[1]) = 6
    /\ calls[1][6].body.script = "Hello!"

\* the forward stages among the calls cs, in order (the deletes left out)
ForwardOps(cs) ==
    LET ops == [i \in 1..Len(cs) |-> cs[i].op]
    IN  SelectSeq(ops, LAMBDA o : o # "delete")

\* the order of the forward stages of a pipeline
StageOrders(pipe) ==
    IF pipe = "a"
    THEN { <<"create", "fetch", "upload", "insert">> }
    ELSE { <<"tts", "upload", "create", "fetch", "upload", "insert">>,
           <<"tts", "upload", "create", "mux", "upload", "insert">> }

IsPrefix(s, t) == Len(s) <= Len(t) /\ SubSeq(t, 1, Len(s)) = s

\* a stage of job j has failed
HasFailed(j) == exc[j] # NoErr \/ pc[j] = "raised"

\* C16: within one job no stage is retried and one failure aborts the
\* pipeline: synthesis, audio upload, generation create, result fetch, mux,
\* final upload and record write are each invoked at most once and in the
\* pipeline's order, one call at a time, and after a failure no forward stage
\* is invoked; only compensating deletes follow.
C16_NoRetrySingleFailureAborts ==
    /\ [](\A j \in Jobs :
             /\ req[j].pipe # None
                   => \E t \in StageOrders(req[j].pipe) :
                         IsPrefix(ForwardOps(calls[j]), t)
             /\ pred[j].creates <= 1
             /\ \A i, k \in 1..Len(calls[j]) :
                   (i < k /\ calls[j][i].op = "delete")
                       => calls[j][k].op = "delete"
             /\ CallsOf(j, {"delete"}) # {} => HasFailed(j))
    /\ [][\A j \in Jobs :
             /\ Len(calls'[j]) <= Len(calls[j]) + 1
             /\ HasFailed(j) =>
                   /\ ForwardOps(calls'[j]) = ForwardOps(calls[j])
                   /\ pred'[j].creates = pred[j].creates
                   /\ pred'[j].reqs = pred[j].reqs
                   /\ HasFailed(j)']_vars

\* a failed final upload was followed by the two deletes and nothing else
C16_Witness ==
    /\ pc[1] = "raised"
    /\ req[1].pipe = "b"
    /\ ForwardOps(calls[1]) = <<"tts", "upload", "create", "mux", "upload">>
    /\ Len(calls[1]) = 7
    /\ calls[1][6].op = "delete" /\ calls[1][7].op = "delete"

\* ---- properties: concurrency ---------------------------------------------------
\* job k has a request in flight that has not ended
InFlight(k) == pc[k] \notin {"idle", "returned", "raised"}

\* C17: the wait between two polls of a job is a suspension point: while one
\* job waits between two status requests, every other job with a request in
\* flight is able to take its next step.  The code violates this: the wait is
\* time.sleep(2), which holds the event loop, so no other coroutine runs
\* until it returns.
C17_PollWaitSuspends ==
    \A j, k \in Jobs :
        (j # k /\ pc[j] = "sleep" /\ InFlight(k)) => ENABLED JobNext(k)

C19_PayloadFields ==
    built.model # None =>
        LET param_mapping == ModelRegistry[built.model].param_mapping
            input == built.payload.input
        IN  /\ {"image_url", "prompt"} \subseteq DOMAIN param_mapping
            /\ \A c \in {"image_url", "prompt", "seconds", "resolution"}
                           \cap DOMAIN param_mapping :
                  param_mapping[c] \in DOMAIN input
            /\ input[param_mapping.image_url] = built.image_url
            /\ input[param_mapping.prompt] = built.prompt
            /\ HasAudioField(built.payload)
                  <=> (MapsAudio(built.model) /\ built.audio_url \notin {None, ""})
            /\ \A k \in AudioFields \cap DOMAIN input :
                  /\ k = param_mapping.audio_url
                  /\ input[k] = built.audio_url
                  /\ input[k] \notin {None, ""}

\* the audio-mapping model was built without an audio URL and with one
C19_Witness ==
    /\ built.model = "wan-video/wan-2.2-s2v"
    /\ built.audio_url = None
    /\ DOMAIN built.payload.input =
          {"guidance_scale", "num_inference_steps", "image", "prompt",
           "duration", "resolution"}

\* C20: for Kling every requested duration <= 5 gives payload duration 5 and
\* every requested duration > 5 gives 10; for every other model the payload
\* duration is the requested duration.
C20_DurationSnap ==
    built.model # None =>
        LET duration ==
                built.payload.input[ModelRegistry[built.model].param_mapping.seconds]
        IN  IF built.model = "kwaivgi/kling-v2.1"
            THEN /\ built.seconds <= 5 => duration = 5
                 /\ built.seconds > 5 => duration = 10
            ELSE duration = built.seconds

C20_Witness ==
    /\ built.model = "kwaivgi/kling-v2.1"
    /\ built.seconds = 5
    /\ built.payload.input.duration = 5

\* C21: for Kling the label "1080p" gives mode pro with ratio 16:9, "1024p"
\* gives mode standard with ratio 16:9 and every other label gives mode
\* standard with ratio 1:1; these values replace the model's default mode and
\* aspect ratio, and the resolution label itself is not in the payload.
C21_KlingResolutionTransform ==
    built.model = "kwaivgi/kling-v2.1" =>
        LET input == built.payload.input
        IN  /\ DOMAIN input =
                  {"mode", "aspect_ratio", "start_image", "prompt", "duration"}
            /\ built.resolution = "1080p"
                  => input.mode = "pro" /\ input.aspect_ratio = "16:9"
            /\ built.resolution = "1024p"
                  => input.mode = "standard" /\ input.aspect_ratio = "16:9"
            /\ built.resolution \notin {"1080p", "1024p"}
                  => input.mode = "standard" /\ input.aspect_ratio = "1:1"
            /\ \A k \in {"mode", "aspect_ratio", "start_image", "prompt"} :
                  input[k] # built.resolution

\* the defaults standard and 1:1 were replaced by pro and 16:9
C21_Witness ==
    /\ built.model = "kwaivgi/kling-v2.1"
    /\ built.resolution = "1080p"
    /\ registry[built.model].default_params.mode = "standard"
    /\ registry[built.model].default_params.aspect_ratio = "1:1"
    /\ built.payload.input.mode = "pro"
    /\ built.payload.input.aspect_ratio = "16:9"

\* the models that declare a resolution set and send the provider a label
SendsLabel(model) ==
    /\ "supported_resolutions" \in DOMAIN ModelRegistry[model]
    /\ ModelRegistry[model].param_mapping.resolution = "resolution"

SupportedLabels(model) ==
    LET labels == ModelRegistry[model].supported_resolutions
    IN  { labels[i] : i \in 1..Len(labels) }

\* the label a build for model with the requested label puts in the payload
LabelFor(model, resolution) ==
    build_model_payload(registry, model, "https://example.com/pet.jpg",
                        "Say hi", 6, resolution, None).input.resolution

\* C22: for every model that declares a supported-resolution set and sends a
\* label, the label in the payload is in the set: a requested label in the set
\* passes unchanged, one outside it is replaced by the model's one default
\* label.  The code violates this: Hailuo-02 and Wan v2.1 pass every label on
\* unchanged, and SeeDance maps "1024p" to "1080p", not to its default "720p".
C22_LabelInSupportedSet ==
    (built.model # None /\ SendsLabel(built.model)) =>
        LET label == built.payload.input.resolution
            labels == SupportedLabels(built.model)
        IN  /\ label \in labels
            /\ built.resolution \in labels => label = built.resolution
            /\ \A r1, r2 \in Resolutions \ labels :
                  LabelFor(built.model, r1) = LabelFor(built.model, r2)

\* ---- properties: storage keys ---------------------------------------------------
StartsWith(s, p) == Len(s) >= Len(p) /\ SubSeq(s, 1, Len(p)) = p

\* the canonical form of a UUID: lower-case digits in groups of 8-4-4-4-12
Canonical(id) ==
    CASE id = "ABCDEF00-0000-0000-0000-000000000001"
            -> "abcdef00-0000-0000-0000-000000000001"
      [] OTHER -> id

ValidUuids ==
    { "00000000-0000-0000-0000-000000000000",
      "ABCDEF00-0000-0000-0000-000000000001" }

\* C23: every key the pipelines upload under is rooted under the caller's
\* scope: "users/<normalized uuid>/" for a user context with a valid UUID,
\* "anonymous/" without a user context; a user context whose id is no valid
\* UUID is rejected with a validation error before a key is built or a remote
\* call is issued.
C23_KeysUnderCallerScope ==
    \A j \in Jobs :
        req[j].pipe # None =>
            /\ \A i \in CallsOf(j, {"upload"}) :
                  /\ req[j].user_context = None
                        => StartsWith(calls[j][i].key, "anonymous/")
                  /\ req[j].user_context \in ValidUuids
                        => StartsWith(calls[j][i].key,
                               "users/" \o Canonical(req[j].user_context) \o "/")
            /\ \A k \in {loc[j].audio_key, loc[j].final_key} \ {None} :
                  /\ req[j].user_context = None => StartsWith(k, "anonymous/")
                  /\ req[j].user_context \in ValidUuids
                        => StartsWith(k, "users/" \o Canonical(req[j].user_context) \o "/")
            /\ req[j].user_context \notin ValidUuids \cup {None} =>
                  /\ calls[j] = <<>>
                  /\ loc[j].keys = 0
                  /\ loc[j].audio_key = None /\ loc[j].final_key = None
                  /\ pc[j] \in {"begin", "raised"}
                  /\ pc[j] = "raised" =>
                        /\ outcome[j].err.exc = "HTTPException"
                        /\ outcome[j].err.status = 400

\* a caller whose id was sent in upper case has both objects under its scope
C23_Witness ==
    /\ pc[1] = "returned"
    /\ req[1].pipe = "b"
    /\ req[1].user_context = "ABCDEF00-0000-0000-0000-000000000001"
    /\ objects =
          { "users/abcdef00-0000-0000-0000-000000000001/audio/uuid1-0.mp3",
            "users/abcdef00-0000-0000-0000-000000000001/videos/uuid1-1.mp4" }

\* ---- properties: the muxer's transient files -----------------------------------
\* C25: mux_video_audio leaves no transient files behind on any exit path:
\* whether it returns the bytes or fails in a download, in the encoder or in
\* reading the output, its temporary directory is gone when it exits.  The
\* code violates this: shutil.rmtree runs only on the path that returns.
C25_NoTransientFilesLeft ==
    tmpdirs = {}

\* s has a path segment that is ".."
HasTraversal(s) ==
    \E i \in 1..(Len(s) - 1) :
        /\ SubSeq(s, i, i + 1) = ".."
        /\ i = 1 \/ SubSeq(s, i - 1, i - 1) = "/"
        /\ i + 1 = Len(s) \/ SubSeq(s, i + 2, i + 2) = "/"

\* C24: for every prefix, category and extension given to build_storage_key
\* the key has no ".." segment.  The code violates this: only the prefix is
\* cleaned, the category and the extension are put into the key as given.
C24_NoTraversalInKey ==
    called.fn = "build_storage_key" => ~HasTraversal(called.result)

\* ---- properties: the metadata record ------------------------------------------
\* the fields of the record of job j other than the storage key
RecordFieldsOk(j, body) ==
    /\ body.user_id = req[j].user_context
    /\ body.video_url = PublicUrl(loc[j].final_key)
    /\ body.image_url = req[j].image_url
    /\ body.script = IF req[j].pipe = "a" THEN None ELSE req[j].text
    /\ body.prompt = req[j].prompt
    /\ body.voice_id = IF req[j].pipe = "a" THEN None ELSE req[j].voice_id
    /\ body.resolution = req[j].resolution
    /\ body.duration = req[j].seconds

\* C26: the record written for a job carries the storage key of the final
\* video together with the user id, the final public URL, the image URL, the
\* script, the prompt, the voice id, the resolution and the duration, and the
\* recorder forwards all of them to the store.  The code violates this:
\* insert_pet_video has no storage_key parameter and posts no such field.
C26_RecordCarriesStorageKey ==
    /\ \A j \in Jobs :
          \A i \in CallsOf(j, {"insert"}) :
              /\ RecordFieldsOk(j, calls[j][i].body)
              /\ "storage_key" \in DOMAIN calls[j][i].body
              /\ calls[j][i].body.storage_key = loc[j].final_key
    /\ \A r \in records : "storage_key" \in DOMAIN r

\* ---- properties: the audio size ceiling ------------------------------------------
\* the synthesized audio objects that exceed the ceiling
OversizedAudio == { Mp3(size) : size \in { x \in AudioSizes : x > MAX_AUDIO_BYTES } }

PayloadTooLarge == HTTPException(400, <<"Generated audio >9.5MB">>)

\* C27: synthesized audio larger than the byte ceiling is rejected with the
\* too-large error before anything is done with it: no audio object over the
\* ceiling is uploaded, and none reaches the generation provider or the muxer.
C27_OversizedAudioRejected ==
    \A j \in Jobs :
        /\ loc[j].mp3_bytes \notin OversizedAudio
        /\ \A i \in CallsOf(j, {"upload"}) : calls[j][i].arg[1] \notin OversizedAudio
        /\ \A i \in CallsOf(j, {"upload", "create", "mux"}) :
              req[j].pipe = "b" =>
                  /\ loc[j].mp3_bytes # None
                  /\ calls[j][2].op = "upload"
                  /\ calls[j][2].arg = <<loc[j].mp3_bytes, "audio/mpeg">>
        /\ outcome[j].err = PayloadTooLarge =>
              /\ pc[j] = "raised"
              /\ Ops(j) = <<"tts">>
              /\ loc[j].audio_key = None
              /\ objects = {}

C27_Witness ==
    /\ pc[1] = "raised"
    /\ outcome[1].err = PayloadTooLarge
    /\ Ops(1) = <<"tts">>

\* ---- properties: authentication -----------------------------------------------
\* the header has the form "Bearer <token>" (the scheme in any case)
BearerForm(h) ==
    \E scheme \in {"Bearer", "bearer", "BEARER"} :
        StartsWith(h, scheme \o " ") /\ Len(h) > Len(scheme) + 1

\* the token of a header of that form
BearerToken(h) == SubSeq(h, 8, Len(h))

\* C28: require_auth decides by configuration and header only: disabled,
\* every request passes; enabled with no token configured, every request fails
\* with 500; enabled with a token configured, a request passes if and only if
\* its header is "Bearer <token>" with the configured token, and is otherwise
\* rejected with 401 when the header is missing or malformed and with 403
\* when the token differs.  The code violates this for a token with a
\* character outside ASCII: secrets.compare_digest raises TypeError.
C28_AuthDecision ==
    called.fn = "require_auth" =>
        LET enabled == called.args[1]
            configured == called.args[2]
            h == called.args[3]
            r == called.result
        IN  /\ ~enabled => r = NoErr
            /\ (enabled /\ configured = "")
                  => r.exc = "HTTPException" /\ r.status = 500
            /\ (enabled /\ configured # "") =>
                  /\ r = NoErr
                        <=> (h # None /\ BearerForm(h) /\ BearerToken(h) = configured)
                  /\ (h = None \/ ~BearerForm(h))
                        => r.exc = "HTTPException" /\ r.status = 401
                  /\ (h # None /\ BearerForm(h) /\ BearerToken(h) # configured)
                        => r.exc = "HTTPException" /\ r.status = 403

\* ---- properties: compensating deletes and stored records ----------------------
\* the step issues a delete call of job j
IssuesDelete(j) ==
    /\ Len(calls'[j]) = Len(calls[j]) + 1
    /\ calls'[j][Len(calls'[j])].op = "delete"

\* the keys job j has issued a delete for
DeletedKeySet(j) == { calls[j][i].key : i \in CallsOf(j, {"delete"}) }

\* job j of pipeline (b) failed inside the try block, after its audio upload
FailedAfterAudio(j) == req[j].pipe = "b" /\ exc[j] # NoErr

\* C29: in pipeline (b), whenever a run fails at a stage after the audio upload
\* succeeded, the keys a compensating delete is issued for are exactly the keys
\* the run uploaded: every delete is issued for a key whose object the run
\* created, and a run that has ended has issued a delete for its audio key and,
\* if the final object was created, for its final video key.  The code violates
\* this: it deletes the final key whenever the key was built, and a delete that
\* raises skips the delete of the audio key.
C29_DeletesExactlyUploadedKeys ==
    /\ [](\A j \in Jobs :
            (FailedAfterAudio(j) /\ pc[j] = "raised") =>
                /\ loc[j].audio_key \in DeletedKeySet(j)
                /\ DeletedKeySet(j) \subseteq {loc[j].audio_key, loc[j].final_key})
    /\ [][\A j \in Jobs :
            req[j].pipe = "b" =>
                /\ IssuesDelete(j) => calls'[j][Len(calls'[j])].key \in objects
                /\ (exc[j] = NoErr /\ exc'[j] # NoErr
                        /\ loc'[j].final_key \in objects')
                      => pc'[j] = "delete_final"]_vars

\* the stored record r refers to an object the bucket holds
RefersToStoredObject(r) == \E k \in objects : r.video_url = PublicUrl(k)

\* C30: over all runs, no record held by the metadata store refers to a storage
\* object that a pipeline has deleted, whatever the outcome of the record-write
\* call.  The code violates this when the store accepts the insert and the call
\* is reported as failed: the except block deletes the object the stored record
\* refers to.
C30_NoRecordOfDeletedObject ==
    \A r \in records : RefersToStoredObject(r)
====
